---- MODULE Spec2Model ----
(***************************************************************************)
(* Thompson-sampling bandit (bandit.py), ad creatives (simulation.py) and  *)
(* the single-run simulator plus multi-run aggregation loop (app.py).      *)
(*                                                                         *)
(* Randomness is nondeterminism: a Beta sample is one of the levels        *)
(* 0..MaxSample (an ordered stand-in for a float in [0,1]); a Bernoulli    *)
(* trial with rate p (in percent) yields 0 or 1 as numpy's binomial does.  *)
(* Floats are exact rationals [num, den]; 0/0 is nan.                      *)
(***************************************************************************)
EXTENDS Integers, Sequences, FiniteSets, TLC

\* ---- bounds -------------------------------------------------------------
MaxImpressions == 3
MaxRuns == 2
MaxSample == 2
MaxWork == 6

\* ---- inputs -------------------------------------------------------------
Ad(id, ctr) == [creative_id |-> id, true_ctr |-> ctr]

\* Registries the runs are started over; true_ctr is in percent.
ArmConfigs ==
  { << >>,
    << Ad(1, 50) >>,
    << Ad(1, 50), Ad(2, 100) >>,
    << Ad(1, 0), Ad(2, 100), Ad(3, 50) >>,
    << Ad(1, 50), Ad(1, 100) >>,
    << Ad(1, 50), Ad(2, 150) >> }

Samples == 0..MaxSample

None == 0

VARIABLES
  creatives_config, num_impressions, num_simulations_to_run,
  pc, error, sim, i,
  creatives, ad_stats, sampled_ctr, chosen_ad_bandit,
  bandit_impressions, bandit_clicks, bandit_history,
  ab_impressions, ab_clicks, ab_history, ab_shown,
  all_bandit_histories, all_ab_histories,
  all_bandit_final_impressions, all_bandit_final_clicks,
  all_ab_final_impressions, all_ab_final_clicks,
  mean_bandit_clicks_hist, std_bandit_clicks_hist,
  mean_ab_clicks_hist, std_ab_clicks_hist,
  uplift_percentage, avg_b_impressions_per_ad, avg_b_clicks_per_ad

inputVars == << creatives_config, num_impressions, num_simulations_to_run >>
runVars == << creatives, ad_stats, sampled_ctr, chosen_ad_bandit,
              bandit_impressions, bandit_clicks, bandit_history,
              ab_impressions, ab_clicks, ab_history, ab_shown >>
allVars == << all_bandit_histories, all_ab_histories,
              all_bandit_final_impressions, all_bandit_final_clicks,
              all_ab_final_impressions, all_ab_final_clicks >>
aggVars == << mean_bandit_clicks_hist, std_bandit_clicks_hist,
              mean_ab_clicks_hist, std_ab_clicks_hist,
              uplift_percentage, avg_b_impressions_per_ad, avg_b_clicks_per_ad >>
vars == << inputVars, pc, error, sim, i, runVars, allVars, aggVars >>

\* ---- helpers ------------------------------------------------------------
Ids(cs) == { cs[j].creative_id : j \in 1..Len(cs) }

\* {ad.creative_id: v for ad in cs}
DictOf(cs, v) == [id \in Ids(cs) |-> v]

RECURSIVE SumOver(_, _)
SumOver(d, S) ==
  IF S = {} THEN 0
  ELSE LET x == CHOOSE y \in S : TRUE IN d[x] + SumOver(d, S \ {x})

\* sum(d.values())
SumValues(d) == SumOver(d, DOMAIN d)

Rat(n, d) == [num |-> n, den |-> d]

IsNaN(r) == r.den = 0

\* ---- simulation.py ------------------------------------------------------
\* np.random.binomial(1, p): the outcomes a trial with rate p can produce;
\* the empty set stands for the ValueError numpy raises for p outside [0,1].
show_ad(ad) ==
  IF ad.true_ctr < 0 \/ ad.true_ctr > 100 THEN {}
  ELSE IF ad.true_ctr = 0 THEN {0}
  ELSE IF ad.true_ctr = 100 THEN {1}
  ELSE {0, 1}

\* ---- bandit.py ----------------------------------------------------------
\* variant: the belief table of the previous policy is kept when it has the same keys
BanditInit_reuse(cs) ==
  IF DOMAIN ad_stats = Ids(cs) /\ cs # << >> THEN ad_stats
  ELSE DictOf(cs, [alpha |-> 1, beta |-> 1])

BanditInit(cs) == DictOf(cs, [alpha |-> 1, beta |-> 1])

\* variant: a later creative with an equal sample replaces the best one
RECURSIVE select_loop_ge(_, _, _, _)
select_loop_ge(samples, j, best_ad, max_sample) ==
  IF j > Len(samples) THEN best_ad
  ELSE IF samples[j] >= max_sample
       THEN select_loop_ge(samples, j + 1, j, samples[j])
       ELSE select_loop_ge(samples, j + 1, best_ad, max_sample)

RECURSIVE select_loop(_, _, _, _)
select_loop(samples, j, best_ad, max_sample) ==
  IF j > Len(samples) THEN best_ad
  ELSE IF samples[j] > max_sample
       THEN select_loop(samples, j + 1, j, samples[j])
       ELSE select_loop(samples, j + 1, best_ad, max_sample)

\* The result is the index of the chosen creative in the registry, or None.
select_ad(samples) == select_loop(samples, 1, None, -1)

\* variant: a failure takes one away from beta
update_decr(stats, ad_id, was_clicked) ==
  IF was_clicked = 1
  THEN [stats EXCEPT ![ad_id].alpha = @ + 1]
  ELSE [stats EXCEPT ![ad_id].beta = @ - 1]

\* variant: every impression counts as a failure, clicked or not
update_both(stats, ad_id, was_clicked) ==
  IF was_clicked = 1
  THEN [stats EXCEPT ![ad_id].alpha = @ + 1, ![ad_id].beta = @ + 1]
  ELSE [stats EXCEPT ![ad_id].beta = @ + 1]

update(stats, ad_id, was_clicked) ==
  IF was_clicked = 1
  THEN [stats EXCEPT ![ad_id].alpha = @ + 1]
  ELSE [stats EXCEPT ![ad_id].beta = @ + 1]

\* ---- app.py: aggregation arithmetic -------------------------------------
RECURSIVE ColSum(_, _, _)
ColSum(stack, j, r) ==
  IF r = 0 THEN 0 ELSE stack[r][j] + ColSum(stack, j, r - 1)

RECURSIVE ColSumSq(_, _, _)
ColSumSq(stack, j, r) ==
  IF r = 0 THEN 0 ELSE stack[r][j] * stack[r][j] + ColSumSq(stack, j, r - 1)

\* np.mean(np.array(stack), axis=0); an empty stack has shape (0,) and its
\* mean is the scalar nan.
np_mean(stack) ==
  LET n == Len(stack) IN
  IF n = 0 THEN Rat(0, 0)
  ELSE [j \in 1..Len(stack[1]) |-> Rat(ColSum(stack, j, n), n)]

\* variant: sample variance (ddof = 1)
np_std_sample(stack) ==
  LET n == Len(stack) IN
  IF n = 0 THEN Rat(0, 0)
  ELSE [j \in 1..Len(stack[1]) |->
          Rat(n * ColSumSq(stack, j, n) - ColSum(stack, j, n) * ColSum(stack, j, n),
              n * (n - 1))]

\* np.std(np.array(stack), axis=0) squared: the population variance
\* (n * sum(x^2) - sum(x)^2) / n^2; the deviation is 0 exactly when it is 0.
np_std(stack) ==
  LET n == Len(stack) IN
  IF n = 0 THEN Rat(0, 0)
  ELSE [j \in 1..Len(stack[1]) |->
          Rat(n * ColSumSq(stack, j, n) - ColSum(stack, j, n) * ColSum(stack, j, n),
              n * n)]

RECURSIVE SumRuns(_, _, _)
SumRuns(dicts, id, r) ==
  IF r = 0 THEN 0
  ELSE (IF id \in DOMAIN dicts[r] THEN dicts[r][id] ELSE 0) + SumRuns(dicts, id, r - 1)

\* per-ad totals over all runs divided by the number of runs
avg_per_ad(dicts, n) ==
  [id \in Ids(creatives_config) |-> Rat(SumRuns(dicts, id, Len(dicts)), n)]

\* ((b - a) / a) * 100 if a > 0 else 0, on means with a common denominator
uplift(b, a) ==
  IF a.num > 0 THEN Rat((b.num - a.num) * 100, a.num) ELSE Rat(0, 1)

\* ---- app.py: run_simulation pieces ---------------------------------------
\* variant: range(total_impressions + 1)
LoopContinues_inclusive == i <= num_impressions

\* for i in range(total_impressions): the loop body runs once more
LoopContinues == i < num_impressions

\* variant: creatives[(i + 1) % num_creatives_env]
rr_index_shifted(step, num_creatives_env) == ((step + 1) % num_creatives_env) + 1

\* creatives[i % num_creatives_env], as a 1-based registry index
rr_index(step, num_creatives_env) == (step % num_creatives_env) + 1

\* variant: the running total is added on top of the previous entry
history_append_twice(history, clicks) ==
  Append(history, SumValues(clicks)
                  + (IF history = << >> THEN 0 ELSE history[Len(history)]))

\* history.append(sum(clicks.values()))
history_append(history, clicks) == Append(history, SumValues(clicks))

\* d[ad_id] += by
Incr(d, ad_id, by) == [d EXCEPT ![ad_id] = @ + by]

UniqueIds(cs) == Cardinality(Ids(cs)) = Len(cs)

\* ---- initial state ------------------------------------------------------
Init ==
  /\ creatives_config \in ArmConfigs
  /\ num_impressions \in 0..MaxImpressions
  /\ num_simulations_to_run \in 0..MaxRuns
  /\ num_impressions * num_simulations_to_run <= MaxWork
  /\ pc = "runs"
  /\ error = "none"
  /\ sim = 0
  /\ i = 0
  /\ creatives = << >>
  /\ ad_stats = << >>
  /\ sampled_ctr = << >>
  /\ chosen_ad_bandit = None
  /\ bandit_impressions = << >>
  /\ bandit_clicks = << >>
  /\ bandit_history = << >>
  /\ ab_impressions = << >>
  /\ ab_clicks = << >>
  /\ ab_history = << >>
  /\ ab_shown = << >>
  /\ all_bandit_histories = << >>
  /\ all_ab_histories = << >>
  /\ all_bandit_final_impressions = << >>
  /\ all_bandit_final_clicks = << >>
  /\ all_ab_final_impressions = << >>
  /\ all_ab_final_clicks = << >>
  /\ mean_bandit_clicks_hist = << >>
  /\ std_bandit_clicks_hist = << >>
  /\ mean_ab_clicks_hist = << >>
  /\ std_ab_clicks_hist = << >>
  /\ uplift_percentage = Rat(0, 1)
  /\ avg_b_impressions_per_ad = << >>
  /\ avg_b_clicks_per_ad = << >>

\* ---- actions ------------------------------------------------------------
\* app.py 106-114 and 54-65: next run of the multi-run loop; fresh creatives,
\* run_simulation builds the policy and the zeroed tallies.
BeginRun ==
  /\ pc = "runs"
  /\ sim < num_simulations_to_run
  /\ creatives' = creatives_config
  /\ ad_stats' = BanditInit(creatives_config)
  /\ bandit_impressions' = DictOf(creatives_config, 0)
  /\ bandit_clicks' = DictOf(creatives_config, 0)
  /\ bandit_history' = << >>
  /\ ab_impressions' = DictOf(creatives_config, 0)
  /\ ab_clicks' = DictOf(creatives_config, 0)
  /\ ab_history' = << >>
  /\ ab_shown' = << >>
  /\ sampled_ctr' = << >>
  /\ chosen_ad_bandit' = None
  /\ i' = 0
  /\ pc' = "loop"
  /\ UNCHANGED << inputVars, error, sim, allVars, aggVars >>

\* app.py 67-68, bandit.py 26-49: one Beta sample per creative, keep the best.
SelectAd ==
  /\ pc = "loop"
  /\ LoopContinues
  /\ \E s \in [1..Len(creatives) -> Samples] :
       /\ sampled_ctr' = s
       /\ chosen_ad_bandit' = select_ad(s)
  /\ pc' = "selected"
  /\ UNCHANGED << inputVars, error, sim, i, creatives, ad_stats,
                  bandit_impressions, bandit_clicks, bandit_history,
                  ab_impressions, ab_clicks, ab_history, ab_shown,
                  allVars, aggVars >>

\* app.py 69-74: show the chosen ad, update the belief and the bandit tallies.
BanditStep ==
  /\ pc = "selected"
  /\ chosen_ad_bandit # None
  /\ LET ad == creatives[chosen_ad_bandit] IN
     \E reward_bandit \in show_ad(ad) :
       /\ ad_stats' = update(ad_stats, ad.creative_id, reward_bandit)
       /\ bandit_impressions' = Incr(bandit_impressions, ad.creative_id, 1)
       /\ bandit_clicks' = Incr(bandit_clicks, ad.creative_id, reward_bandit)
       /\ bandit_history' = history_append(bandit_history, bandit_clicks')
  /\ sampled_ctr' = << >>
  /\ pc' = "ab"
  /\ UNCHANGED << inputVars, error, sim, i, creatives, chosen_ad_bandit,
                  ab_impressions, ab_clicks, ab_history, ab_shown,
                  allVars, aggVars >>

\* app.py 69: select_ad returned None (no creatives), None.show_ad() raises.
BanditStepNone ==
  /\ pc = "selected"
  /\ chosen_ad_bandit = None
  /\ pc' = "crashed"
  /\ error' = "AttributeError"
  /\ UNCHANGED << inputVars, sim, i, runVars, allVars, aggVars >>

\* app.py 69, simulation.py 32: binomial rejects a rate outside [0,1].
BanditStepRaise ==
  /\ pc = "selected"
  /\ chosen_ad_bandit # None
  /\ show_ad(creatives[chosen_ad_bandit]) = {}
  /\ pc' = "crashed"
  /\ error' = "ValueError"
  /\ UNCHANGED << inputVars, sim, i, runVars, allVars, aggVars >>

\* app.py 76-81: round-robin baseline for impression i.
ABStep ==
  /\ pc = "ab"
  /\ LET num_creatives_env == Len(creatives)
         idx == rr_index(i, num_creatives_env)
         ad_to_show_ab == creatives[idx] IN
     \E reward_ab \in show_ad(ad_to_show_ab) :
       /\ ab_impressions' = Incr(ab_impressions, ad_to_show_ab.creative_id, 1)
       /\ ab_clicks' = Incr(ab_clicks, ad_to_show_ab.creative_id, reward_ab)
       /\ ab_history' = history_append(ab_history, ab_clicks')
       /\ ab_shown' = Append(ab_shown, idx)
  /\ i' = i + 1
  /\ pc' = "loop"
  /\ UNCHANGED << inputVars, error, sim, creatives, ad_stats, sampled_ctr,
                  chosen_ad_bandit, bandit_impressions, bandit_clicks,
                  bandit_history, allVars, aggVars >>

\* app.py 77: the round-robin creative has a rate outside [0,1].
ABStepRaise ==
  /\ pc = "ab"
  /\ show_ad(creatives[rr_index(i, Len(creatives))]) = {}
  /\ pc' = "crashed"
  /\ error' = "ValueError"
  /\ UNCHANGED << inputVars, sim, i, runVars, allVars, aggVars >>

\* app.py 84 and 116-124: run_simulation returns, the results are collected.
ReturnRun ==
  /\ pc = "loop"
  /\ ~LoopContinues
  /\ all_bandit_histories' = Append(all_bandit_histories, bandit_history)
  /\ all_ab_histories' = Append(all_ab_histories, ab_history)
  /\ all_bandit_final_impressions' = Append(all_bandit_final_impressions, bandit_impressions)
  /\ all_bandit_final_clicks' = Append(all_bandit_final_clicks, bandit_clicks)
  /\ all_ab_final_impressions' = Append(all_ab_final_impressions, ab_impressions)
  /\ all_ab_final_clicks' = Append(all_ab_final_clicks, ab_clicks)
  /\ sim' = sim + 1
  /\ pc' = "runs"
  /\ UNCHANGED << inputVars, error, i, runVars, aggVars >>

\* app.py 129-137
Stack ==
  /\ mean_bandit_clicks_hist' = np_mean(all_bandit_histories)
  /\ std_bandit_clicks_hist' = np_std(all_bandit_histories)
  /\ mean_ab_clicks_hist' = np_mean(all_ab_histories)
  /\ std_ab_clicks_hist' = np_std(all_ab_histories)

\* app.py 126-222: all runs done, mean/std series and per-ad averages.
Aggregate ==
  /\ pc = "runs"
  /\ sim >= num_simulations_to_run
  /\ num_simulations_to_run > 0
  /\ num_impressions > 0
  /\ Stack
  /\ LET avg_total_bandit_clicks == mean_bandit_clicks_hist'[num_impressions]
         avg_total_ab_clicks == mean_ab_clicks_hist'[num_impressions] IN
     uplift_percentage' = uplift(avg_total_bandit_clicks, avg_total_ab_clicks)
  /\ avg_b_impressions_per_ad' =
       avg_per_ad(all_bandit_final_impressions, num_simulations_to_run)
  /\ avg_b_clicks_per_ad' =
       avg_per_ad(all_bandit_final_clicks, num_simulations_to_run)
  /\ pc' = "done"
  /\ UNCHANGED << inputVars, error, sim, i, runVars, allVars >>

\* app.py 144: the mean is the scalar nan (no runs) or an empty series (no
\* impressions); indexing its last element raises IndexError.
AggregateRaise ==
  /\ pc = "runs"
  /\ sim >= num_simulations_to_run
  /\ num_simulations_to_run = 0 \/ num_impressions = 0
  /\ Stack
  /\ pc' = "crashed"
  /\ error' = "IndexError"
  /\ UNCHANGED << inputVars, sim, i, runVars, allVars,
                  uplift_percentage, avg_b_impressions_per_ad, avg_b_clicks_per_ad >>

Next ==
  \/ BeginRun
  \/ SelectAd
  \/ BanditStep
  \/ BanditStepNone
  \/ BanditStepRaise
  \/ ABStep
  \/ ABStepRaise
  \/ ReturnRun
  \/ Aggregate
  \/ AggregateRaise

Spec == Init /\ [][Next]_vars

\* ---- properties ---------------------------------------------------------
BeliefPrior ==
  \A id \in DOMAIN ad_stats : ad_stats[id].alpha >= 1 /\ ad_stats[id].beta >= 1

BeliefStepMonotone ==
  pc # "runs" =>
    \A id \in DOMAIN ad_stats :
      /\ ad_stats'[id].alpha >= ad_stats[id].alpha
      /\ ad_stats'[id].beta >= ad_stats[id].beta

\* C1: at every point of a run every arm's belief has alpha >= 1 and
\* beta >= 1, and no step of the run lowers either value.
C1_BeliefPriorMonotone == []BeliefPrior /\ [][BeliefStepMonotone]_vars

C1_Witness ==
  \E id \in DOMAIN ad_stats : ad_stats[id].alpha >= 2 /\ ad_stats[id].beta >= 2

CumulativeOK(h) ==
  /\ Len(h) = num_impressions
  /\ h[1] \in {0, 1}
  /\ \A j \in 2..Len(h) : h[j] - h[j - 1] \in {0, 1}

\* C2: for a non-empty registry and total_impressions >= 1 the bandit and A/B
\* cumulative-click sequences a run returns have length total_impressions,
\* start at 0 or 1 and grow by 0 or 1 per step.
C2_CumulativeSeries ==
  (creatives_config # << >> /\ num_impressions >= 1) =>
    \A r \in 1..Len(all_bandit_histories) :
      CumulativeOK(all_bandit_histories[r]) /\ CumulativeOK(all_ab_histories[r])

C2_Witness ==
  \E r \in 1..Len(all_bandit_histories) :
    /\ all_bandit_histories[r] = << 0, 1, 1 >>
    /\ all_ab_histories[r] = << 1, 1, 2 >>

\* C3: after i loop iterations the bandit impressions and the A/B impressions
\* each sum to i, and in every returned run each sums to total_impressions.
C3_ImpressionSums ==
  /\ pc = "loop" =>
       SumValues(bandit_impressions) = i /\ SumValues(ab_impressions) = i
  /\ \A r \in 1..Len(all_bandit_final_impressions) :
       /\ SumValues(all_bandit_final_impressions[r]) = num_impressions
       /\ SumValues(all_ab_final_impressions[r]) = num_impressions

C3_Witness ==
  /\ Len(all_bandit_final_impressions) >= 1
  /\ num_impressions >= 3
  /\ Cardinality(DOMAIN all_bandit_final_impressions[1]) >= 3
  /\ \E id \in DOMAIN all_bandit_final_impressions[1] :
       all_bandit_final_impressions[1][id] >= 2

\* number of impressions of the A/B branch so far that showed the creative id
ABShownCount(id) ==
  Cardinality({ j \in 1..Len(ab_shown) : creatives[ab_shown[j]].creative_id = id })

\* C4: the A/B branch shows on impression n (0-indexed) the creative at
\* registry index n mod k whatever was observed, so every k consecutive
\* impressions show each creative exactly once.
C4_RoundRobin ==
  LET k == Len(creatives) IN
  /\ \A j \in 1..Len(ab_shown) : ab_shown[j] = ((j - 1) % k) + 1
  /\ \A w \in 1..(Len(ab_shown) - k + 1) : \A a \in 1..k :
       Cardinality({ j \in w..(w + k - 1) : ab_shown[j] = a }) = 1
  /\ \A id \in DOMAIN ab_impressions : ab_impressions[id] = ABShownCount(id)

C4_Witness ==
  /\ Len(creatives) = 2
  /\ UniqueIds(creatives)
  /\ Len(ab_shown) = 3
  /\ ab_history = << 0, 1, 2 >>

BadCounts == num_simulations_to_run < 1 \/ num_impressions < 1

NothingStarted ==
  /\ sim = 0
  /\ creatives = << >>
  /\ ad_stats = << >>
  /\ all_bandit_histories = << >>
  /\ mean_bandit_clicks_hist = << >>

\* C5: with num_runs < 1 or total_impressions < 1 a configuration error is
\* signalled before any run executes: no simulator call, no creatives or
\* policy built, no aggregate computed.
C5_CountsRejected ==
  BadCounts =>
    /\ NothingStarted
    /\ pc \in {"runs", "crashed"}
    /\ pc = "crashed" => error = "ConfigurationError"

RateOutOfRange(cs) ==
  \E j \in 1..Len(cs) : cs[j].true_ctr < 0 \/ cs[j].true_ctr > 100

\* C6: arm definitions with duplicate ids or a rate outside [0,1] are
\* rejected with a configuration error before any simulation work; no policy
\* is ever built over a registry in which two arms share an id.
C6_ArmsRejected ==
  (~UniqueIds(creatives_config) \/ RateOutOfRange(creatives_config)) =>
    /\ NothingStarted
    /\ pc \in {"runs", "crashed"}
    /\ pc = "crashed" => error = "ConfigurationError"

FreshRun ==
  /\ \A id \in DOMAIN ad_stats : ad_stats[id] = [alpha |-> 1, beta |-> 1]
  /\ DOMAIN ad_stats = Ids(creatives)
  /\ \A id \in Ids(creatives) :
       /\ bandit_impressions[id] = 0
       /\ bandit_clicks[id] = 0
       /\ ab_impressions[id] = 0
       /\ ab_clicks[id] = 0
  /\ bandit_history = << >>
  /\ ab_history = << >>

IsPrefix(s, t) == Len(s) <= Len(t) /\ \A j \in 1..Len(s) : t[j] = s[j]

CollectedKept ==
  /\ IsPrefix(all_bandit_histories, all_bandit_histories')
  /\ IsPrefix(all_ab_histories, all_ab_histories')
  /\ IsPrefix(all_bandit_final_impressions, all_bandit_final_impressions')
  /\ IsPrefix(all_bandit_final_clicks, all_bandit_final_clicks')
  /\ IsPrefix(all_ab_final_impressions, all_ab_final_impressions')
  /\ IsPrefix(all_ab_final_clicks, all_ab_final_clicks')

\* C7: every run of the multi-run loop starts with all beliefs at (1,1), the
\* four tallies at zero and both cumulative sequences empty, and no step
\* changes a result collected from an earlier run.
C7_NoLeakBetweenRuns ==
  [](pc = "loop" /\ i = 0 => FreshRun) /\ [][CollectedKept]_vars

C7_Witness ==
  /\ pc = "loop"
  /\ i = 0
  /\ sim >= 1
  /\ SumValues(all_bandit_final_clicks[1]) >= 1
  /\ SumValues(all_ab_final_clicks[1]) >= 1
  /\ Len(creatives) >= 2

\* C8: over a non-empty registry select_ad returns a creative of the
\* registry, the one with the greatest sample and the first such in registry
\* order; a single creative is returned on every call.
C8_SelectArgmaxFirst ==
  (pc = "selected" /\ creatives # << >>) =>
    /\ chosen_ad_bandit \in 1..Len(creatives)
    /\ \A j \in 1..Len(creatives) :
         sampled_ctr[j] <= sampled_ctr[chosen_ad_bandit]
    /\ \A j \in 1..(chosen_ad_bandit - 1) :
         sampled_ctr[j] < sampled_ctr[chosen_ad_bandit]
    /\ Len(creatives) = 1 => chosen_ad_bandit = 1

C8_Witness ==
  /\ pc = "selected"
  /\ Len(creatives) = 3
  /\ sampled_ctr = << 0, 1, 1 >>
  /\ chosen_ad_bandit = 2

MeanIsRun(mean, std, run) ==
  /\ DOMAIN mean = 1..num_impressions
  /\ DOMAIN std = 1..num_impressions
  /\ \A j \in 1..num_impressions :
       /\ ~IsNaN(mean[j])
       /\ mean[j].num = run[j] * mean[j].den
       /\ ~IsNaN(std[j])
       /\ std[j].num = 0

\* C9: with num_runs = 1 the mean series of each strategy is that run's
\* cumulative-click series, of length total_impressions, and the standard
\* deviation is 0 at every index.
C9_SingleRunMean ==
  (pc = "done" /\ num_simulations_to_run = 1) =>
    /\ MeanIsRun(mean_bandit_clicks_hist, std_bandit_clicks_hist, all_bandit_histories[1])
    /\ MeanIsRun(mean_ab_clicks_hist, std_ab_clicks_hist, all_ab_histories[1])

C9_Witness ==
  /\ pc = "done"
  /\ num_simulations_to_run = 1
  /\ num_impressions = 3
  /\ all_bandit_histories[1] = << 1, 1, 2 >>
  /\ all_ab_histories[1] = << 0, 1, 1 >>

BeliefMatchesTallies ==
  (pc = "loop" /\ UniqueIds(creatives)) =>
    /\ \A id \in DOMAIN ad_stats :
         /\ ad_stats[id].alpha - 1 = bandit_clicks[id]
         /\ ad_stats[id].beta - 1 = bandit_impressions[id] - bandit_clicks[id]
         /\ bandit_clicks[id] <= bandit_impressions[id]
    /\ bandit_history # << >> =>
         bandit_history[Len(bandit_history)] = SumValues(bandit_clicks)

\* C10: with unique ids, after every loop iteration alpha - 1 is the arm's
\* bandit clicks and beta - 1 its bandit impressions minus clicks, the last
\* cumulative entry is the sum of bandit clicks, and the A/B branch leaves
\* every belief as it was.
C10_BeliefAgreesWithTallies ==
  []BeliefMatchesTallies /\ [][pc = "ab" => ad_stats' = ad_stats]_vars

C10_Witness ==
  /\ pc = "loop"
  /\ UniqueIds(creatives)
  /\ i = 3
  /\ \E id \in DOMAIN ad_stats : ad_stats[id].alpha = 2 /\ ad_stats[id].beta = 3

====
